---- MODULE Spec2Model ----
(***************************************************************************)
(* A model of src/main.py: the CODEOWNERS dead-path checker.               *)
(*                                                                         *)
(* Strings are sequences of one-character tokens.  The tokens "LF", "CR"   *)
(* and "TAB" stand for the characters \n, \r and \t, and "BAD" for a byte  *)
(* that is not valid UTF-8.  A filesystem path that exists is kept as the  *)
(* sequence of its components (the root directory is the empty sequence).  *)
(***************************************************************************)
EXTENDS Integers, Sequences, FiniteSets, TLC

\* ------------------------------------------------------------------ bounds

\* The manifest is a concatenation of at most MaxPieces pieces of ManifestPieces.
MaxPieces == 2

\* ----------------------------------------------------------- string helpers

LF == "LF"
CR == "CR"
TAB == "TAB"
BAD == "BAD"

\* str.strip() and the regular expression \s: the whitespace characters.
IsSpace(c) == c \in {" ", TAB, LF, CR}

RECURSIVE lstrip(_)
lstrip(s) == IF s /= <<>> /\ IsSpace(Head(s)) THEN lstrip(Tail(s)) ELSE s

RECURSIVE rstrip(_)
rstrip(s) == IF s /= <<>> /\ IsSpace(s[Len(s)]) THEN rstrip(SubSeq(s, 1, Len(s) - 1)) ELSE s

\* line = original_line_content_with_eol.strip()
strip(s) == rstrip(lstrip(s))

\* s.rstrip('\r\n'): every trailing \r and \n is removed.
RECURSIVE rstrip_eol(_)
rstrip_eol(s) == IF s /= <<>> /\ s[Len(s)] \in {CR, LF} THEN rstrip_eol(SubSeq(s, 1, Len(s) - 1)) ELSE s

\* s.startswith(p)
startswith(s, p) == Len(s) >= Len(p) /\ SubSeq(s, 1, Len(p)) = p

\* c in s
Contains(s, c) == \E i \in 1..Len(s) : s[i] = c

\* The index of the first character of s satisfying IsSpace, or 0.
RECURSIVE FirstSpace(_, _)
FirstSpace(s, i) == IF i > Len(s) THEN 0 ELSE IF IsSpace(s[i]) THEN i ELSE FirstSpace(s, i + 1)

\* re.split(r"\s+", line, maxsplit=1): the text before the first run of
\* whitespace and, when there is such a run, the text after it.
re_split(line) ==
    LET i == FirstSpace(line, 1)
    IN  IF i = 0 THEN <<line>>
        ELSE <<SubSeq(line, 1, i - 1), lstrip(SubSeq(line, i, Len(line)))>>

\* str(n) for a natural number n.
Digit(d) == CASE d = 0 -> "0" [] d = 1 -> "1" [] d = 2 -> "2" [] d = 3 -> "3" [] d = 4 -> "4"
              [] d = 5 -> "5" [] d = 6 -> "6" [] d = 7 -> "7" [] d = 8 -> "8" [] d = 9 -> "9"

RECURSIVE str(_)
str(n) == IF n < 10 THEN <<Digit(n)>> ELSE str(n \div 10) \o <<Digit(n % 10)>>

\* sep.join(parts)
RECURSIVE join(_, _)
join(sep, parts) ==
    IF parts = <<>> THEN <<>>
    ELSE IF Len(parts) = 1 THEN parts[1]
    ELSE parts[1] \o sep \o join(sep, Tail(parts))

\* s.split("/")
RECURSIVE split_slash(_)
split_slash(s) ==
    LET i == CHOOSE k \in 1..(Len(s) + 1) : (k = Len(s) + 1 \/ s[k] = "/") /\ \A j \in 1..(k - 1) : s[j] /= "/"
    IN  IF i = Len(s) + 1 THEN <<s>>
        ELSE <<SubSeq(s, 1, i - 1)>> \o split_slash(SubSeq(s, i + 1, Len(s)))

\* ------------------------------------------------------ reading the manifest

\* open(codeowners_path, "r", encoding="utf-8"): the text layer decodes the
\* bytes strictly; a byte that is not UTF-8 raises UnicodeDecodeError.
Decodable(bytes) == ~Contains(bytes, BAD)

\* The text layer's universal newlines (newline=None): \r\n and a lone \r are
\* both handed to the program as \n.
RECURSIVE translate_newlines(_)
translate_newlines(bytes) ==
    IF bytes = <<>> THEN <<>>
    ELSE IF Head(bytes) = CR
         THEN IF Len(bytes) >= 2 /\ bytes[2] = LF
              THEN <<LF>> \o translate_newlines(SubSeq(bytes, 3, Len(bytes)))
              ELSE <<LF>> \o translate_newlines(Tail(bytes))
    ELSE <<Head(bytes)>> \o translate_newlines(Tail(bytes))

\* One step of "for original_line_content_with_eol in file": the text up to
\* and including the next \n, or all that is left.
readline(text) ==
    LET i == CHOOSE k \in 1..Len(text) : (k = Len(text) \/ text[k] = LF) /\ \A j \in 1..(k - 1) : text[j] /= LF
    IN  SubSeq(text, 1, i)

\* ------------------------------------------------------------ the filesystem

\* posixpath.join(a, b)
path_join(a, b) ==
    IF startswith(b, <<"/">>) THEN b
    ELSE IF a = <<>> \/ a[Len(a)] = "/" THEN a \o b
    ELSE a \o <<"/">> \o b

\* The component loop of posixpath.normpath.
RECURSIVE norm_comps(_, _, _)
norm_comps(comps, new_comps, initial_slashes) ==
    IF comps = <<>> THEN new_comps
    ELSE LET comp == Head(comps)
         IN  IF comp = <<>> \/ comp = <<".">> THEN norm_comps(Tail(comps), new_comps, initial_slashes)
             ELSE IF comp /= <<".", ".">>
                     \/ (initial_slashes = 0 /\ new_comps = <<>>)
                     \/ (new_comps /= <<>> /\ new_comps[Len(new_comps)] = <<".", ".">>)
                  THEN norm_comps(Tail(comps), Append(new_comps, comp), initial_slashes)
             ELSE IF new_comps /= <<>>
                  THEN norm_comps(Tail(comps), SubSeq(new_comps, 1, Len(new_comps) - 1), initial_slashes)
             ELSE norm_comps(Tail(comps), new_comps, initial_slashes)

\* posixpath.normpath(path)
normpath(path) ==
    IF path = <<>> THEN <<".">>
    ELSE LET initial_slashes ==
                 IF ~startswith(path, <<"/">>) THEN 0
                 ELSE IF startswith(path, <<"/", "/">>) /\ ~startswith(path, <<"/", "/", "/">>) THEN 2
                 ELSE 1
             comps == norm_comps(split_slash(path), <<>>, initial_slashes)
             joined == join(<<"/">>, comps)
             slashes == IF initial_slashes = 2 THEN <<"/", "/">> ELSE IF initial_slashes = 1 THEN <<"/">> ELSE <<>>
             res == slashes \o joined
         IN  IF res = <<>> THEN <<".">> ELSE res

\* The components the kernel walks for an absolute path: empty components
\* and "." are skipped (after normpath no ".." is left in an absolute path).
Components(path) == SelectSeq(split_slash(path), LAMBDA c : c /= <<>> /\ c /= <<".">>)

\* os.path.exists(path) for an absolute path, on the filesystem fs.
path_exists(fs, path) == startswith(path, <<"/">>) /\ Components(path) \in fs

\* glob.has_magic / the test of line 72: the text holds one of * ? [
has_magic(s) == Contains(s, "*") \/ Contains(s, "?") \/ Contains(s, "[")

\* fnmatch.translate's scan of a character class opened by pat[1] = "[":
\* the index of its closing "]", or 0 when the class is never closed.
ClassEnd(pat) ==
    LET j1 == IF Len(pat) >= 2 /\ pat[2] = "!" THEN 3 ELSE 2
        j2 == IF j1 <= Len(pat) /\ pat[j1] = "]" THEN j1 + 1 ELSE j1
        closers == {k \in j2..Len(pat) : pat[k] = "]"}
    IN  IF closers = {} THEN 0 ELSE CHOOSE k \in closers : \A m \in closers : k <= m

\* fnmatch.fnmatchcase(name, pat) on one path component.
RECURSIVE fnmatch(_, _)
fnmatch(name, pat) ==
    IF pat = <<>> THEN name = <<>>
    ELSE LET c == Head(pat)
         IN  IF c = "*" THEN fnmatch(name, Tail(pat)) \/ (name /= <<>> /\ fnmatch(Tail(name), pat))
             ELSE IF c = "?" THEN name /= <<>> /\ fnmatch(Tail(name), Tail(pat))
             ELSE IF c = "[" /\ ClassEnd(pat) /= 0
                  THEN LET j == ClassEnd(pat)
                           stuff == SubSeq(pat, 2, j - 1)
                           negated == Head(stuff) = "!"
                           members == IF negated THEN Tail(stuff) ELSE stuff
                       IN  /\ name /= <<>>
                           /\ Contains(members, Head(name)) /= negated
                           /\ fnmatch(Tail(name), SubSeq(pat, j + 1, Len(pat)))
             ELSE name /= <<>> /\ Head(name) = c /\ fnmatch(Tail(name), Tail(pat))

\* One component of a glob: a component with magic is matched by fnmatch
\* against the directory's entries (a name starting with "." only by a
\* pattern starting with "."), one without must be that very entry.
glob_component(name, pat) ==
    IF has_magic(pat)
    THEN fnmatch(name, pat) /\ (startswith(name, <<".">>) => startswith(pat, <<".">>))
    ELSE name = pat

\* glob.glob(pathname) for an absolute pathname: the existing paths it
\* expands to.  Without magic it is the path itself when it exists.
glob(fs, pathname) ==
    LET comps == Components(pathname)
    IN  IF ~startswith(pathname, <<"/">>) THEN {}
        ELSE IF ~has_magic(pathname) THEN (IF comps \in fs THEN {comps} ELSE {})
        ELSE {p \in fs : Len(p) = Len(comps) /\ \A i \in 1..Len(p) : glob_component(p[i], comps[i])}

\* ---------------------------------------------------------- parse_codeowners

\* Mutant of is_skipped: the comment test is forgotten.
is_skipped_blank_only(line) == line = <<>>

\* if not line or line.startswith("#"): continue
is_skipped(line) == line = <<>> \/ startswith(line, <<"#">>)

\* file_pattern = parts[0]
file_pattern_of(line) == re_split(line)[1]

\* owner_info = "" ; if len(parts) > 1: owner_info = parts[1]
owner_info_of(line) == IF Len(re_split(line)) > 1 THEN re_split(line)[2] ELSE <<>>

\* Lines 60-67: the path joined to the project root.
effective_path_to_check(project_root, cwd, file_pattern) ==
    LET current_project_root == IF project_root /= <<>> THEN project_root ELSE cwd
    IN  IF startswith(file_pattern, <<"/">>)
        THEN path_join(current_project_root, Tail(file_pattern))
        ELSE path_join(current_project_root, file_pattern)

\* Mutant of pattern_has_magic: "[" is not taken for a glob character.
pattern_has_magic_no_bracket(file_pattern) == Contains(file_pattern, "*") \/ Contains(file_pattern, "?")

\* Lines 71-76: the existence verdict.
pattern_has_magic(file_pattern) ==
    Contains(file_pattern, "*") \/ Contains(file_pattern, "?") \/ Contains(file_pattern, "[")

entry_exists(fs, file_pattern, normalized) ==
    IF pattern_has_magic(file_pattern) THEN glob(fs, normalized) /= {}
    ELSE path_exists(fs, normalized)

NoOwnerSpecified == <<"<", "N", "o", " ", "o", "w", "n", "e", "r", " ", "s", "p", "e", "c", "i", "f", "i", "e", "d", ">">>

\* display_owner = owner_info if owner_info else "<No owner specified>"
display_owner(owner_info) == IF owner_info /= <<>> THEN owner_info ELSE NoOwnerSpecified

\* The tuple appended at lines 80-85.
entry_of(file_pattern, owner_info, line_num, original_line) ==
    <<file_pattern, display_owner(owner_info), line_num, rstrip_eol(original_line)>>

\* -------------------------------------------------------- generate_diff_patch

\* posixpath.relpath(path, start), both absolute.
relpath(path, start) ==
    LET start_list == Components(start)
        path_list == Components(path)
        common == {k \in 0..Len(start_list) : k <= Len(path_list) /\ SubSeq(start_list, 1, k) = SubSeq(path_list, 1, k)}
        i == CHOOSE k \in common : \A m \in common : m <= k
        rel_list == [k \in 1..(Len(start_list) - i) |-> <<".", ".">>] \o SubSeq(path_list, i + 1, Len(path_list))
    IN  IF rel_list = <<>> THEN <<".">> ELSE join(<<"/">>, rel_list)

\* posixpath.basename(path)
basename(path) == LET parts == split_slash(path) IN parts[Len(parts)]

\* Lines 95-113: the path shown in the patch header.  git_repo_root is what
\* get_git_repo_root returned (the empty string standing for None).
relative_codeowners_filepath(abs_codeowners_filepath, git_repo_root, cwd) ==
    IF git_repo_root /= <<>> THEN relpath(abs_codeowners_filepath, git_repo_root)
    ELSE LET relative_path_from_cwd == relpath(abs_codeowners_filepath, cwd)
         IN  IF startswith(relative_path_from_cwd, <<".", ".">>) \/ startswith(relative_path_from_cwd, <<"/">>)
             THEN basename(abs_codeowners_filepath)
             ELSE relative_path_from_cwd

\* lines_to_delete_numbers = {entry[2] for entry in nonexistent_entries}
lines_to_delete_numbers(nonexistent_entries) == {nonexistent_entries[k][3] : k \in DOMAIN nonexistent_entries}

\* Mutant of new_num_lines: the deleted lines are not subtracted.
new_num_lines_not_subtracted(original_num_lines, nonexistent_entries) == original_num_lines

\* new_num_lines = original_num_lines - len(lines_to_delete_numbers)
new_num_lines(original_num_lines, nonexistent_entries) ==
    original_num_lines - Cardinality(lines_to_delete_numbers(nonexistent_entries))

\* f"@@ -1,{original_num_lines} +1,{new_num_lines} @@"
hunk_header(original_num_lines, nonexistent_entries) ==
    <<"@", "@", " ", "-", "1", ",">> \o str(original_num_lines) \o <<" ", "+", "1", ",">>
        \o str(new_num_lines(original_num_lines, nonexistent_entries)) \o <<" ", "@", "@">>

\* Mutant of patch_line: the line keeps its terminator.
patch_line_keeping_eol(current_line_num, line_content_with_eol, to_delete) ==
    IF current_line_num \in to_delete THEN <<"-">> \o line_content_with_eol
    ELSE <<" ">> \o line_content_with_eol

\* Lines 127-133: the patch line of the manifest line numbered current_line_num.
patch_line(current_line_num, line_content_with_eol, to_delete) ==
    LET line_content_for_patch == rstrip_eol(line_content_with_eol)
    IN  IF current_line_num \in to_delete THEN <<"-">> \o line_content_for_patch
        ELSE <<" ">> \o line_content_for_patch

\* generate_diff_patch(codeowners_filepath, nonexistent_entries, original_codeowners_lines_with_eol)
generate_diff_patch(codeowners_filepath, nonexistent_entries, original_lines, git_repo_root, cwd) ==
    LET rel == relative_codeowners_filepath(codeowners_filepath, git_repo_root, cwd)
        to_delete == lines_to_delete_numbers(nonexistent_entries)
        patch_lines ==
            << <<"-", "-", "-", " ", "a", "/">> \o rel,
               <<"+", "+", "+", " ", "b", "/">> \o rel,
               hunk_header(Len(original_lines), nonexistent_entries) >>
            \o [i \in 1..Len(original_lines) |-> patch_line(i, original_lines[i], to_delete)]
    IN  join(<<LF>>, patch_lines) \o <<LF>>

\* ------------------------------------------------------------------- inputs

\* args.codeowners_path and args.project_root after os.path.abspath (lines 156-157).
CodeownersPath == <<"/", "o", "/", "d", "/", "C">>
ProjectRoot == <<"/", "r">>

\* patch_filename = "stale-codeowners.patch"
patch_filename ==
    <<"s", "t", "a", "l", "e", "-", "c", "o", "d", "e", "o", "w", "n", "e", "r", "s", ".", "p", "a", "t", "c", "h">>

\* The file open(patch_filename, "w") names: the patch in the working directory.
PatchPath(dir) == Components(dir) \o <<patch_filename>>

\* Pieces of manifest text; a manifest is a concatenation of some of them.
ManifestPieces ==
    { <<"#", "c", LF, LF, " ", TAB, LF, " ", "#", LF>>,
      <<"/", "a", " ", "o", LF>>,
      <<"m", CR, LF>>,
      <<"/", "*", LF>>,
      <<"m", "?">>,
      <<"[", "a", "]", CR>>,
      <<"a", "/", ".", ".", "/", "m", TAB, " ", "o", " ", LF>>,
      <<"/", "/", "x", " ", "o", LF>>,
      <<"/", "m", " ">> \o NoOwnerSpecified \o <<LF>>,
      <<BAD>> }

RECURSIVE Manifests(_)
Manifests(n) == IF n = 0 THEN {<<>>} ELSE Manifests(n - 1) \cup {m \o p : m \in Manifests(n - 1), p \in ManifestPieces}

\* A filesystem holding the given paths: they and their ancestor directories exist.
Tree(paths) == {<<>>} \cup UNION {{SubSeq(f, 1, k) : k \in 1..Len(f)} : f \in paths}

\* The files the project may hold, besides the manifest, the working
\* directory and an earlier patch file.
ProjectFiles ==
    { { <<<<"r">>, <<"a">>>>, <<<<"x">>>> },
      { <<<<"r">>, <<"a">>>>, <<<<"r">>, <<"m">>>>, <<<<"r">>, <<"x">>>>, <<<<"r">>, <<"m", "m">>>> } }

WorkingDirectories == { <<"/", "r">>, <<"/", "o">> }

\* What get_git_repo_root can return for the manifest: None (the empty
\* string here) or an ancestor directory of the manifest.
GitRepoRoots == { <<>>, <<"/", "o">> }

NoFile == <<"absent">>
OldPatch == <<"o", "l", "d", LF>>

\* Console messages.
Message(kind, n, rows) == [msg |-> kind, n |-> n, rows |-> rows]

\* -------------------------------------------------------------------- state

VARIABLES
    manifest_bytes,              \* the manifest's content on disk
    fs,                          \* the paths that exist (files and directories)
    cwd,                         \* os.getcwd()
    generate_patch,              \* args.generate_patch
    patch_file,                  \* the content of stale-codeowners.patch, or NoFile
    files_written,               \* how many files the runs have written
    pc,                          \* where the program is
    unread,                      \* the text the file iterator has not handed out yet
    line_num_1_indexed,
    original_lines_with_eol,
    nonexistent_entries_details,
    effective_path_to_check_normalized,   \* of the last content line checked
    console,                     \* what was printed
    exit_code,                   \* the process's exit status, -1 while it runs
    previous_result              \* what an earlier call of parse_codeowners returned

vars == <<manifest_bytes, fs, cwd, generate_patch, patch_file, files_written, pc, unread,
          line_num_1_indexed, original_lines_with_eol, nonexistent_entries_details,
          effective_path_to_check_normalized, console, exit_code, previous_result>>

env == <<manifest_bytes, cwd, generate_patch>>
disk == <<fs, patch_file, files_written>>
locals == <<unread, line_num_1_indexed, original_lines_with_eol, nonexistent_entries_details,
            effective_path_to_check_normalized>>
history == <<previous_result>>

\* os.path.exists(codeowners_path)
manifest_exists == path_exists(fs, CodeownersPath)

Init ==
    /\ cwd \in WorkingDirectories
    /\ generate_patch \in BOOLEAN
    /\ patch_file \in {NoFile, OldPatch}
    /\ \E files \in ProjectFiles, manifest \in SUBSET {Components(CodeownersPath)} :
           /\ fs = Tree(files \cup manifest \cup {Components(cwd)}
                        \cup (IF patch_file = NoFile THEN {} ELSE {PatchPath(cwd)}))
           /\ manifest_bytes \in (IF manifest = {} THEN {<<>>} ELSE Manifests(MaxPieces))
    /\ files_written = 0
    /\ pc = "main"
    /\ unread = <<>>
    /\ line_num_1_indexed = 0
    /\ original_lines_with_eol = <<>>
    /\ nonexistent_entries_details = <<>>
    /\ effective_path_to_check_normalized = <<>>
    /\ console = <<>>
    /\ exit_code = -1
    /\ previous_result = <<>>

\* -------------------------------------------------------- parse_codeowners

\* Mutant of fresh_entries: the list outlives the call (a module-level list).
fresh_entries_kept(old) == old

\* Lines 38-39 and 44: the lists and the counter a call starts from.
fresh_entries(old) == <<>>

\* Lines 37-44 with the manifest present: the call starts with empty lists.
EnterParse ==
    /\ pc = "main"
    /\ manifest_exists
    /\ nonexistent_entries_details' = fresh_entries(nonexistent_entries_details)
    /\ original_lines_with_eol' = <<>>
    /\ line_num_1_indexed' = 0
    /\ pc' = "open"
    /\ UNCHANGED <<env, disk, unread, effective_path_to_check_normalized, console, exit_code, previous_result>>

\* Lines 40-42: the manifest does not exist; the error is printed and sys.exit(1).
ManifestMissing ==
    /\ pc = "main"
    /\ ~manifest_exists
    /\ nonexistent_entries_details' = fresh_entries(nonexistent_entries_details)
    /\ original_lines_with_eol' = <<>>
    /\ console' = Append(console, Message("error: does not exist", 0, <<>>))
    /\ exit_code' = 1
    /\ pc' = "done"
    /\ UNCHANGED <<env, disk, unread, line_num_1_indexed, effective_path_to_check_normalized, previous_result>>

\* Line 45 and the iterator's first read: the content is decoded.
OpenManifest ==
    /\ pc = "open"
    /\ Decodable(manifest_bytes)
    /\ unread' = translate_newlines(manifest_bytes)
    /\ pc' = "loop"
    /\ UNCHANGED <<env, disk, line_num_1_indexed, original_lines_with_eol, nonexistent_entries_details,
                   effective_path_to_check_normalized, console, exit_code, history>>

\* Lines 45-46 on content that is not UTF-8: UnicodeDecodeError is raised,
\* nothing catches it, the interpreter prints the traceback and exits 1.
DecodeError ==
    /\ pc = "open"
    /\ ~Decodable(manifest_bytes)
    /\ console' = Append(console, Message("traceback: UnicodeDecodeError", 0, <<>>))
    /\ exit_code' = 1
    /\ pc' = "done"
    /\ UNCHANGED <<env, disk, locals, history>>

\* Lines 46-51: a line that is blank or a comment.
SkipLine ==
    /\ pc = "loop"
    /\ unread /= <<>>
    /\ LET original_line_content_with_eol == readline(unread)
           line == strip(original_line_content_with_eol)
       IN  /\ is_skipped(line)
           /\ unread' = SubSeq(unread, Len(original_line_content_with_eol) + 1, Len(unread))
           /\ original_lines_with_eol' = Append(original_lines_with_eol, original_line_content_with_eol)
           /\ line_num_1_indexed' = line_num_1_indexed + 1
    /\ UNCHANGED <<env, disk, pc, nonexistent_entries_details, effective_path_to_check_normalized,
                   console, exit_code, history>>

\* Lines 46-85: a line with a pattern.
CheckLine ==
    /\ pc = "loop"
    /\ unread /= <<>>
    /\ LET original_line_content_with_eol == readline(unread)
           line == strip(original_line_content_with_eol)
           file_pattern == file_pattern_of(line)
           owner_info == owner_info_of(line)
           normalized == normpath(effective_path_to_check(ProjectRoot, cwd, file_pattern))
       IN  /\ ~is_skipped(line)
           /\ unread' = SubSeq(unread, Len(original_line_content_with_eol) + 1, Len(unread))
           /\ original_lines_with_eol' = Append(original_lines_with_eol, original_line_content_with_eol)
           /\ line_num_1_indexed' = line_num_1_indexed + 1
           /\ effective_path_to_check_normalized' = normalized
           /\ nonexistent_entries_details' =
                  IF entry_exists(fs, file_pattern, normalized) THEN nonexistent_entries_details
                  ELSE Append(nonexistent_entries_details,
                              entry_of(file_pattern, owner_info, line_num_1_indexed + 1, original_line_content_with_eol))
    /\ UNCHANGED <<env, disk, pc, console, exit_code, history>>

\* Line 87: the file is exhausted and parse_codeowners returns.
ReturnParsed ==
    /\ pc = "loop"
    /\ unread = <<>>
    /\ pc' = "parsed"
    /\ UNCHANGED <<env, disk, locals, console, exit_code, history>>

\* -------------------------------------------------------------------- main

\* Lines 163-170: patch mode with stale entries.
WritePatch ==
    /\ pc = "parsed"
    /\ generate_patch
    /\ nonexistent_entries_details /= <<>>
    /\ \E git_repo_root \in GitRepoRoots :
           patch_file' = generate_diff_patch(CodeownersPath, nonexistent_entries_details,
                                             original_lines_with_eol, git_repo_root, cwd)
    /\ fs' = fs \cup {PatchPath(cwd)}
    /\ files_written' = files_written + 1
    /\ console' = Append(console, Message("Patch file generated", 0, <<>>))
    /\ exit_code' = 0
    /\ pc' = "done"
    /\ UNCHANGED <<env, locals, history>>

\* Mutant of NothingToPatch: a patch without deletions is written all the same.
NothingToPatch_writing ==
    /\ pc = "parsed"
    /\ generate_patch
    /\ nonexistent_entries_details = <<>>
    /\ \E git_repo_root \in GitRepoRoots :
           patch_file' = generate_diff_patch(CodeownersPath, nonexistent_entries_details,
                                             original_lines_with_eol, git_repo_root, cwd)
    /\ fs' = fs \cup {PatchPath(cwd)}
    /\ files_written' = files_written + 1
    /\ console' = Append(console, Message("Nothing to patch", 0, <<>>))
    /\ exit_code' = 0
    /\ pc' = "done"
    /\ UNCHANGED <<env, locals, history>>

\* Lines 171-173: patch mode without stale entries.
NothingToPatch ==
    /\ pc = "parsed"
    /\ generate_patch
    /\ nonexistent_entries_details = <<>>
    /\ console' = Append(console, Message("Nothing to patch", 0, <<>>))
    /\ exit_code' = 0
    /\ pc' = "done"
    /\ UNCHANGED <<env, disk, locals, history>>

\* table.add_row(str(line_num), file_pattern, owner, original_line)
table_rows(entries) == [k \in DOMAIN entries |-> <<str(entries[k][3]), entries[k][1], entries[k][2], entries[k][4]>>]

\* Lines 175-188: report mode with stale entries; main returns, the exit status is 0.
ReportStale ==
    /\ pc = "parsed"
    /\ ~generate_patch
    /\ nonexistent_entries_details /= <<>>
    /\ console' = console \o << Message("do not exist (anymore)", Len(nonexistent_entries_details), <<>>),
                               Message("table", 0, table_rows(nonexistent_entries_details)) >>
    /\ exit_code' = 0
    /\ pc' = "done"
    /\ UNCHANGED <<env, disk, locals, history>>

\* Lines 189-190: report mode without stale entries.
ReportClean ==
    /\ pc = "parsed"
    /\ ~generate_patch
    /\ nonexistent_entries_details = <<>>
    /\ console' = Append(console, Message("All files/patterns exist", 0, <<>>))
    /\ exit_code' = 0
    /\ pc' = "done"
    /\ UNCHANGED <<env, disk, locals, history>>

Next ==
    \/ EnterParse
    \/ ManifestMissing
    \/ OpenManifest
    \/ DecodeError
    \/ SkipLine
    \/ CheckLine
    \/ ReturnParsed
    \/ WritePatch
    \/ NothingToPatch
    \/ ReportStale
    \/ ReportClean

Spec == Init /\ [][Next]_vars

\* A harness that calls parse_codeowners a second time on the same manifest
\* and project root, keeping what the first call returned.
ParseAgain ==
    /\ pc = "parsed"
    /\ previous_result = <<>>
    /\ previous_result' = <<nonexistent_entries_details, original_lines_with_eol>>
    /\ pc' = "main"
    /\ UNCHANGED <<env, disk, locals, console, exit_code>>

NextRerun ==
    \/ Next
    \/ ParseAgain

SpecRerun == Init /\ [][NextRerun]_vars

\* ---------------------------------------------------------------- properties

\* The manifest's lines as a reader of the bytes sees them: the text between
\* terminators, a terminator being \r\n, \r or \n.
RECURSIVE SourceLines(_)
SourceLines(bytes) ==
    IF bytes = <<>> THEN <<>>
    ELSE LET brk == {k \in 1..Len(bytes) : bytes[k] \in {CR, LF}}
         IN  IF brk = {} THEN <<bytes>>
             ELSE LET k == CHOOSE x \in brk : \A y \in brk : x <= y
                      after == IF bytes[k] = CR /\ k < Len(bytes) /\ bytes[k + 1] = LF THEN k + 2 ELSE k + 1
                  IN  <<SubSeq(bytes, 1, k - 1)>> \o SourceLines(SubSeq(bytes, after, Len(bytes)))

\* The lines of a text: the pieces between its \n characters.
RECURSIVE SplitLF(_)
SplitLF(t) ==
    LET brk == {k \in 1..Len(t) : t[k] = LF}
    IN  IF brk = {} THEN <<t>>
        ELSE LET k == CHOOSE x \in brk : \A y \in brk : x <= y
             IN  <<SubSeq(t, 1, k - 1)>> \o SplitLF(SubSeq(t, k + 1, Len(t)))

RECURSIVE Concat(_)
Concat(ss) == IF ss = <<>> THEN <<>> ELSE Head(ss) \o Concat(Tail(ss))

DecimalDigits == <<"0", "1", "2", "3", "4", "5", "6", "7", "8", "9">>
Decimal(n) == IF n < 10 THEN <<DecimalDigits[n + 1]>> ELSE <<DecimalDigits[(n \div 10) + 1], DecimalDigits[(n % 10) + 1]>>

\* A line with content: not empty after trimming and not a comment.
IsContentLine(l) == strip(l) /= <<>> /\ Head(strip(l)) /= "#"

\* The pattern of a content line: its text up to the first whitespace.
PatternOf(l) ==
    LET t == strip(l)
        sp == {k \in 1..Len(t) : IsSpace(t[k])}
    IN  IF sp = {} THEN t ELSE SubSeq(t, 1, (CHOOSE x \in sp : \A y \in sp : x <= y) - 1)

\* Whether a content line has text after its pattern.
HasOwnerText(l) == \E k \in 1..Len(strip(l)) : IsSpace(strip(l)[k])

\* The line numbers of the stale entries, in the list's order.
StaleNumbers == [k \in DOMAIN nonexistent_entries_details |-> nonexistent_entries_details[k][3]]
StaleSet == {StaleNumbers[k] : k \in DOMAIN StaleNumbers}

\* The patch file's lines, and its hunk body (what follows the three header
\* lines, without the empty piece after the final newline).
PatchLines == SplitLF(patch_file)
HunkBody == SubSeq(PatchLines, 4, Len(PatchLines) - 1)
PatchWritten == pc = "done" /\ files_written > 0

\* C1: the patch written for a manifest of N lines with k stale entries has
\* the hunk header "@@ -1,N +1,(N-k) @@" followed by one line per manifest
\* line, in order: "-" and the line's text for the k stale lines, a space and
\* the line's text for the other N-k, the text being the source line without
\* its terminator.
C1_PatchShape ==
    PatchWritten =>
        LET N == Len(original_lines_with_eol)
            k == Len(nonexistent_entries_details)
            src == SourceLines(manifest_bytes)
        IN  /\ Len(src) = N
            /\ Len(PatchLines) = N + 4
            /\ PatchLines[3] = <<"@", "@", " ", "-", "1", ",">> \o Decimal(N) \o <<" ", "+", "1", ",">>
                                   \o Decimal(N - k) \o <<" ", "@", "@">>
            /\ \A i \in 1..N :
                   HunkBody[i] = (IF i \in StaleSet THEN <<"-">> ELSE <<" ">>) \o src[i]
            /\ Cardinality({i \in 1..N : Head(HunkBody[i]) = "-"}) = k
            /\ Cardinality({i \in 1..N : Head(HunkBody[i]) = " "}) = N - k

C1_Witness ==
    /\ PatchWritten
    /\ Len(original_lines_with_eol) >= 3
    /\ Len(nonexistent_entries_details) >= 1
    /\ Len(nonexistent_entries_details) < Len(original_lines_with_eol)

\* C2 (as claimed): the stale entries are exactly the content lines whose
\* pattern does not resolve, in file order, each with its 1-based line number
\* and its line text without the trailing newline, and the returned lines are
\* the manifest's lines verbatim (together they are the manifest's content).
C2_ParseResult ==
    pc = "parsed" =>
        LET lines == original_lines_with_eol
            stale == {i \in 1..Len(lines) :
                          /\ IsContentLine(lines[i])
                          /\ ~entry_exists(fs, PatternOf(lines[i]),
                                           normpath(effective_path_to_check(ProjectRoot, cwd, PatternOf(lines[i]))))}
        IN  /\ StaleSet = stale
            /\ Len(nonexistent_entries_details) = Cardinality(stale)
            /\ \A j, k \in DOMAIN StaleNumbers : j < k => StaleNumbers[j] < StaleNumbers[k]
            /\ \A k \in DOMAIN nonexistent_entries_details :
                   LET l == lines[StaleNumbers[k]]
                   IN  nonexistent_entries_details[k][4] =
                           (IF l /= <<>> /\ l[Len(l)] = LF THEN SubSeq(l, 1, Len(l) - 1) ELSE l)
            /\ Concat(lines) = manifest_bytes

\* C3: a content line is reported stale exactly when its pattern does not
\* resolve: a pattern holding *, ? or [ resolves when the glob of the
\* resolved path has a match, any other when the normalized path exists
\* (on the filesystem as the parse finds it, before main writes anything).
C3_Verdict ==
    \A i \in 1..(IF pc \in {"loop", "parsed"} THEN Len(original_lines_with_eol) ELSE 0) :
        LET l == original_lines_with_eol[i]
            p == PatternOf(l)
            target == normpath(effective_path_to_check(ProjectRoot, cwd, p))
            existing == IF Contains(p, "*") \/ Contains(p, "?") \/ Contains(p, "[")
                        THEN \E m \in fs : m \in glob(fs, target)
                        ELSE Components(target) \in fs
        IN  IsContentLine(l) => ((i \in StaleSet) <=> ~existing)

C3_Witness ==
    /\ pc = "parsed"
    /\ \E i, j \in 1..Len(original_lines_with_eol) :
           /\ IsContentLine(original_lines_with_eol[i])
           /\ Contains(PatternOf(original_lines_with_eol[i]), "[")
           /\ i \notin StaleSet
           /\ IsContentLine(original_lines_with_eol[j])
           /\ ~has_magic(PatternOf(original_lines_with_eol[j]))
           /\ j \in StaleSet

\* What applying a hunk body gives: the "-" lines dropped, the lines with a
\* space kept without it.
RECURSIVE ApplyHunk(_)
ApplyHunk(body) ==
    IF body = <<>> THEN <<>>
    ELSE IF Head(body) /= <<>> /\ Head(Head(body)) = " " THEN <<Tail(Head(body))>> \o ApplyHunk(Tail(body))
    ELSE ApplyHunk(Tail(body))

\* The sequence without the elements at the given indices.
RECURSIVE Without(_, _, _)
Without(ss, drop, i) ==
    IF i > Len(ss) THEN <<>>
    ELSE (IF i \in drop THEN <<>> ELSE <<ss[i]>>) \o Without(ss, drop, i + 1)

\* C4: applying the written patch to the manifest gives the manifest's lines
\* without the stale ones, the others (blank and comment lines too) as they
\* were; no line of the hunk is an insertion, and the patch ends with a
\* newline.
C4_PatchApplies ==
    PatchWritten =>
        /\ ApplyHunk(HunkBody) = Without(SourceLines(manifest_bytes), StaleSet, 1)
        /\ \A i \in 1..Len(HunkBody) : HunkBody[i] /= <<>> /\ Head(HunkBody[i]) \in {" ", "-"}
        /\ Len(HunkBody) = Len(SourceLines(manifest_bytes))
        /\ patch_file[Len(patch_file)] = LF

C4_Witness ==
    /\ PatchWritten
    /\ manifest_bytes[Len(manifest_bytes)] \notin {LF, CR}
    /\ \E i \in 1..Len(original_lines_with_eol) : ~IsContentLine(original_lines_with_eol[i])

\* C5 (as claimed): a run ends with a non-zero status exactly when the
\* manifest does not exist, and then only the error was printed, nothing was
\* reported and no file was written.
C5_ExitStatus ==
    pc = "done" =>
        /\ (exit_code /= 0) <=> ~manifest_exists
        /\ ~manifest_exists =>
               /\ console = <<Message("error: does not exist", 0, <<>>)>>
               /\ files_written = 0
               /\ nonexistent_entries_details = <<>>

\* C6: in patch mode a step writes the patch file exactly when the parse
\* has returned a stale list that is not empty; with an empty list the run
\* prints its success message, exits 0 and leaves every file as it was; and
\* patch mode never prints the report table.
C6_PatchOnlyWhenStale ==
    [][generate_patch =>
           /\ (files_written' = files_written + 1) <=> (pc = "parsed" /\ nonexistent_entries_details /= <<>>)
           /\ (files_written' = files_written) <=> (fs' = fs /\ patch_file' = patch_file)
           /\ (files_written' = files_written) \/ (files_written' = files_written + 1)
           /\ (pc = "parsed" /\ nonexistent_entries_details = <<>>) =>
                  /\ console' = Append(console, Message("Nothing to patch", 0, <<>>))
                  /\ exit_code' = 0
                  /\ pc' = "done"
           /\ \A k \in DOMAIN console' : console'[k].msg /= "table"]_vars

C6_Witness ==
    /\ pc = "done"
    /\ generate_patch
    /\ exit_code = 0
    /\ nonexistent_entries_details = <<>>
    /\ Len(original_lines_with_eol) >= 2
    /\ patch_file = OldPatch
    /\ files_written = 0

\* C7: a second call of the parser on the same manifest, project root and
\* filesystem returns the same stale entries in the same order and the same
\* lines as the first, and no file was written by the calls.
C7_SameResult ==
    /\ (pc = "parsed" /\ previous_result /= <<>>) =>
           previous_result = <<nonexistent_entries_details, original_lines_with_eol>>
    /\ pc \in {"main", "open", "loop", "parsed"} =>
           /\ files_written = 0
           /\ patch_file \in {NoFile, OldPatch}
           /\ (patch_file = NoFile) <=> (PatchPath(cwd) \notin fs)

C7_Witness ==
    /\ pc = "parsed"
    /\ previous_result /= <<>>
    /\ Len(nonexistent_entries_details) >= 2

\* C8 (as claimed): a stale entry's owner is the "no owner specified" value
\* exactly when its line has no text after the pattern.
C8_Sentinel ==
    \A k \in DOMAIN nonexistent_entries_details :
        (nonexistent_entries_details[k][2] = NoOwnerSpecified)
            <=> ~HasOwnerText(nonexistent_entries_details[k][4])

\* C9: at every point of the parse the stale entries' line numbers are
\* strictly increasing (so distinct) and within 1..(lines read), none is the
\* number of a blank or comment line, and there are no more stale entries
\* than content lines read.
C9_OnePerContentLine ==
    LET lines == original_lines_with_eol
    IN  /\ line_num_1_indexed = Len(lines)
        /\ \A k \in DOMAIN StaleNumbers : StaleNumbers[k] \in 1..line_num_1_indexed
        /\ \A j, k \in DOMAIN StaleNumbers : j < k => StaleNumbers[j] < StaleNumbers[k]
        /\ \A k \in DOMAIN StaleNumbers : IsContentLine(lines[StaleNumbers[k]])
        /\ Len(nonexistent_entries_details) <= Cardinality({i \in 1..Len(lines) : IsContentLine(lines[i])})

C9_Witness ==
    /\ pc = "loop"
    /\ unread /= <<>>
    /\ Len(nonexistent_entries_details) >= 1
    /\ \E i \in 1..Len(original_lines_with_eol) : ~IsContentLine(original_lines_with_eol[i])

\* C10 (as claimed): the path checked for a pattern is the project root
\* followed by the pattern without its leading "/", so the verdict is that of
\* this place under the root (and /p fares as p does), and a stale entry
\* reports the pattern as written.
C10_UnderRoot ==
    \A i \in 1..(IF pc \in {"loop", "parsed"} THEN Len(original_lines_with_eol) ELSE 0) :
        LET l == original_lines_with_eol[i]
            p == PatternOf(l)
            rel == IF startswith(p, <<"/">>) THEN Tail(p) ELSE p
            target == normpath(ProjectRoot \o <<"/">> \o rel)
            existing == IF has_magic(p) THEN glob(fs, target) /= {} ELSE path_exists(fs, target)
        IN  IsContentLine(l) =>
                /\ (i = Len(original_lines_with_eol) => effective_path_to_check_normalized = target)
                /\ (i \in StaleSet) <=> ~existing
                /\ \A k \in DOMAIN StaleNumbers : StaleNumbers[k] = i => nonexistent_entries_details[k][1] = p
====
